---- MODULE Spec2Model ----
(***************************************************************************)
(* A model of mdbook-katex (src/src/main.rs): the preprocessor's main,     *)
(* the macro table loader, and the two-pass delimiter splitter/renderer.   *)
(* Strings are sequences of one-character strings.  The KaTeX render       *)
(* function is an external collaborator: it is a deterministic function    *)
(* of its input, drawn in Init from a small family of behaviours.          *)
(***************************************************************************)
EXTENDS Integers, Sequences, FiniteSets, TLC

(* ------------------------------ bounds -------------------------------- *)

\* Longest chapter drawn from DocChars.
MaxLen == 7

\* Longest macro source drawn from MacroChars.
MaxMacroLen == 6

(* ------------------------------ strings ------------------------------- *)

RECURSIVE SeqsUpTo(_, _)
\* All strings over alphabet S of length at most n.
SeqsUpTo(S, n) ==
    IF n = 0 THEN {<<>>}
    ELSE LET shorter == SeqsUpTo(S, n - 1)
         IN  shorter \cup {Append(s, c) : s \in shorter, c \in S}

RECURSIVE Find(_, _, _)
\* str::find from position i: the index of the first occurrence of sep in s
\* at or after i, 0 when there is none.
Find(s, sep, i) ==
    IF i + Len(sep) - 1 > Len(s) THEN 0
    ELSE IF SubSeq(s, i, i + Len(sep) - 1) = sep THEN i
    ELSE Find(s, sep, i + 1)

RECURSIVE SplitRightmost(_, _)
\* A splitter that searches from the right end (str::rsplit, put back in
\* document order).
SplitRightmost(s, sep) ==
    LET n == Len(sep)
        hits == {i \in 1..Len(s) : i + n - 1 <= Len(s) /\ SubSeq(s, i, i + n - 1) = sep}
    IN  IF hits = {} THEN <<s>>
        ELSE LET p == CHOOSE i \in hits : \A j \in hits : j <= i
             IN  Append(SplitRightmost(SubSeq(s, 1, p - 1), sep),
                        SubSeq(s, p + n, Len(s)))

RECURSIVE SplitInclusive(_, _)
\* A splitter that leaves each delimiter at the end of the slice before it
\* (str::split_inclusive).
SplitInclusive(s, sep) ==
    LET p == Find(s, sep, 1)
    IN  IF p = 0 THEN <<s>>
        ELSE <<SubSeq(s, 1, p + Len(sep) - 1)>>
                 \o SplitInclusive(SubSeq(s, p + Len(sep), Len(s)), sep)

RECURSIVE Split(_, _)
\* str::split(sep) for a non-empty sep: the slices between the leftmost
\* non-overlapping occurrences of sep, in order; always at least one slice.
Split(s, sep) ==
    LET p == Find(s, sep, 1)
    IN  IF p = 0 THEN <<s>>
        ELSE <<SubSeq(s, 1, p - 1)>> \o Split(SubSeq(s, p + Len(sep), Len(s)), sep)

(* ----------------------------- constants ------------------------------ *)

\* The style-sheet link of render, one token standing for the whole tag
\* (the tag holds no "$").
header == <<"<link rel=stylesheet katex.min.css>">>

BlockSeparator == <<"$", "$">>

InlineSeparator == <<"$">>

(* --------------------------- render function -------------------------- *)

\* Behaviours of katex::render_with_opts the model draws from.
\*   fail    every call returns Err
\*   ok      every call returns markup free of "$"
\*   strict  Err on an empty expression or one holding "$", markup otherwise
\*   dollar  every call returns markup that shows a dollar glyph
Renderers == {"fail", "ok", "strict", "dollar"}

\* The markup of an expression: a token telling display from inline mode.
Markup(disp) == IF disp THEN <<"<katex-display>">> ELSE <<"<katex>">>

\* katex::render_with_opts(item, opts) under behaviour fn.
RenderWithOpts(f, item, disp, macros) ==
    CASE f = "fail"   -> [ok |-> FALSE, rendered |-> <<>>]
      [] f = "ok"     -> [ok |-> TRUE, rendered |-> Markup(disp)]
      [] f = "strict" ->
            IF item = <<>> \/ \E i \in 1..Len(item) : item[i] = "$"
            THEN [ok |-> FALSE, rendered |-> <<>>]
            ELSE [ok |-> TRUE, rendered |-> Markup(disp)]
      [] f = "dollar" -> [ok |-> TRUE, rendered |-> Markup(disp) \o <<"$">>]

\* The parity test turned round: the slices at even positions rendered.
IsExpressionEven(pos) == pos % 2 = 0

\* Line 123: the slices at odd positions are expressions.
IsExpression(pos) == pos % 2 = 1

\* Lines 123-138: what render_separator pushes for the slice at position k.
SegmentOutput(f, item, pos, disp, macros) ==
    IF IsExpression(pos)
    THEN LET res == RenderWithOpts(f, item, disp, macros)
         IN  IF res.ok THEN res.rendered ELSE item
    ELSE item

(* ------------------------------- inputs ------------------------------- *)

DocChars == {"$", "a"}

MacroChars == {"\\", ":", "x", "\n"}

\* The nesting example of the specification: "$$ a $ b $ c $$".
NestingExample ==
    <<"$", "$", " ", "a", " ", "$", " ", "b", " ", "$", " ", "c", " ", "$", "$">>

Docs == SeqsUpTo(DocChars, MaxLen) \cup {NestingExample}

MacroSources == SeqsUpTo(MacroChars, MaxMacroLen)

Chapter(text) == [kind |-> "Chapter", content |-> text]

Separator == [kind |-> "Separator", content |-> <<>>]

NoFile == [readable |-> FALSE, text |-> <<>>]

\* What one run of the program is given: the command line (the supports
\* subcommand's renderer, the --macros path), the macro file behind the
\* path, the book on stdin and the behaviour of the render function.
Input(sub, path, file, valid, book, f) ==
    [sub |-> sub, macros_path |-> path, macro_file |-> file,
     stdin |-> [valid |-> valid, book |-> book], fn |-> f]

Inputs ==
         \* one chapter, no macro file, every render behaviour
         {Input("none", "None", NoFile, TRUE, <<Chapter(d)>>, f) :
             d \in Docs, f \in Renderers}
    \cup \* a macro file, one chapter
         {Input("none", "Some", [readable |-> TRUE, text |-> m], TRUE,
                <<Chapter(<<"$", "a", "$">>)>>, "ok") : m \in MacroSources}
    \cup \* books of several items, an empty book, an unreadable macro
         \* file, malformed stdin, the supports subcommand
         {Input("none", "None", NoFile, TRUE,
                <<Chapter(<<"a">>), Separator, Chapter(<<"$", "a", "$">>)>>, "ok"),
          Input("none", "None", NoFile, TRUE, <<>>, "ok"),
          Input("none", "Some", NoFile, TRUE, <<Chapter(<<"a">>)>>, "ok"),
          Input("none", "None", NoFile, FALSE, <<>>, "ok"),
          Input("html", "None", NoFile, TRUE, <<>>, "ok"),
          Input("pdf", "None", NoFile, TRUE, <<>>, "ok")}

(* ------------------------------- state -------------------------------- *)

VARIABLES
    pc,          \* position in the program
    matches,     \* main: the parsed command line (the supports renderer)
    macros_path, \* KatexProcessor.macros_path: "None" or "Some"
    macro_file,  \* the file behind macros_path
    stdin,       \* what the host sends
    fn,          \* behaviour of the render function
    new_book,    \* run: the book being rewritten
    idx,         \* run: position of for_each_mut in the book
    couples,     \* load_macros: lines of the macro source still to read
    map,         \* load_macros: the table, a set of <<name, body>> pairs
    content,     \* render: the chapter text, shadowed after each pass
    render_html, \* render: its html buffer
    string,      \* render_separator: the string being split
    separator,   \* render_separator: the delimiter
    display,     \* render_separator: the display mode
    items,       \* render_separator: slices the loop has yet to visit
    k,           \* render_separator: position of the next slice
    html,        \* render_separator: its html buffer
    calls,       \* the render calls made for the current chapter
    result,      \* main: what handle_preprocessing returned
    stdout,      \* "", "partial" or "book"
    stderr,      \* "" or the message printed
    exit_code    \* exit status once pc = "exited"

vars == <<pc, matches, macros_path, macro_file, stdin, fn, new_book, idx,
          couples, map, content, render_html, string, separator, display,
          items, k, html, calls, result, stdout, stderr, exit_code>>

env == <<matches, macros_path, macro_file, stdin, fn>>

loader == <<couples, map>>

splitter == <<string, separator, display, items, k, html>>

process_io == <<result, stdout, stderr, exit_code>>

Init ==
    \E in \in Inputs :
        /\ pc = "main"
        /\ matches = in.sub
        /\ macros_path = in.macros_path
        /\ macro_file = in.macro_file
        /\ stdin = in.stdin
        /\ fn = in.fn
        /\ new_book = <<>>
        /\ idx = 1
        /\ couples = <<>>
        /\ map = {}
        /\ content = <<>>
        /\ render_html = <<>>
        /\ string = <<>>
        /\ separator = BlockSeparator
        /\ display = TRUE
        /\ items = <<>>
        /\ k = 0
        /\ html = <<>>
        /\ calls = <<>>
        /\ result = "none"
        /\ stdout = ""
        /\ stderr = ""
        /\ exit_code = 0

(* -------------------------------- main -------------------------------- *)

\* Lines 40-42, 56-65: the supports subcommand exits with 0 for "html"
\* and 1 for any other renderer.
HandleSupports ==
    /\ pc = "main"
    /\ matches # "none"
    /\ exit_code' = IF matches = "html" THEN 0 ELSE 1
    /\ pc' = "exited"
    /\ UNCHANGED <<env, new_book, idx, loader, content, render_html,
                   splitter, calls, result, stdout, stderr>>

\* Lines 43, 49-50: handle_preprocessing reads the book from stdin; a
\* malformed input returns Err through the ? operator.
ParseInput ==
    /\ pc = "main"
    /\ matches = "none"
    /\ IF stdin.valid
       THEN /\ new_book' = stdin.book
            /\ idx' = 1
            /\ pc' = "run"
            /\ UNCHANGED result
       ELSE /\ result' = "Err"
            /\ pc' = "main_result"
            /\ UNCHANGED <<new_book, idx>>
    /\ UNCHANGED <<env, loader, content, render_html, splitter, calls,
                   stdout, stderr, exit_code>>

\* Lines 152-156, 77-79: for_each_mut visits the next item; a chapter is
\* handed to process, which starts with load_macros; any other item is
\* passed over.
RunItem ==
    /\ pc = "run"
    /\ idx <= Len(new_book)
    /\ IF new_book[idx].kind = "Chapter"
       THEN /\ content' = new_book[idx].content
            /\ pc' = "load_macros"
            /\ UNCHANGED idx
       ELSE /\ idx' = idx + 1
            /\ UNCHANGED <<pc, content>>
    /\ UNCHANGED <<env, new_book, loader, render_html, splitter, calls,
                   process_io>>

\* Lines 157, 51-52: run returns Ok(new_book), which never fails, and
\* handle_preprocessing goes on to write it.
RunReturn ==
    /\ pc = "run"
    /\ idx > Len(new_book)
    /\ pc' = "to_writer"
    /\ UNCHANGED <<env, new_book, idx, loader, content, render_html,
                   splitter, calls, process_io>>

\* Lines 52-53: serde_json::to_writer on stdout.  A write that fails
\* returns Err after nothing or a part of the book was written.
ToWriter ==
    /\ pc = "to_writer"
    /\ \E written \in {"book", "partial", ""} :
          /\ stdout' = written
          /\ result' = IF written = "book" THEN "Ok" ELSE "Err"
    /\ pc' = "main_result"
    /\ UNCHANGED <<env, new_book, idx, loader, content, render_html,
                   splitter, calls, stderr, exit_code>>

\* Lines 44-47: main prints the error, if any, and returns; a main
\* that returns ends the process with status 0.
MainResult ==
    /\ pc = "main_result"
    /\ stderr' = IF result = "Err" THEN "error" ELSE stderr
    /\ exit_code' = 0
    /\ pc' = "exited"
    /\ UNCHANGED <<env, new_book, idx, loader, content, render_html,
                   splitter, calls, result, stdout>>

(* ----------------------------- load_macros ---------------------------- *)

\* Line 91: HashMap::insert puts the entry in place of any entry of the
\* same name.
Insert(m, name, body) == {e \in m : e[1] # name} \cup {<<name, body>>}

\* Lines 83-86, 165-183: load_macros starts from an empty table; with no
\* path it returns it at once; load_as_string panics on a file it cannot
\* open or read; the text is split into lines.
LoadMacros ==
    /\ pc = "load_macros"
    /\ map' = {}
    /\ IF macros_path = "None"
       THEN /\ pc' = "render"
            /\ UNCHANGED <<couples, stderr, exit_code>>
       ELSE IF ~macro_file.readable
       THEN /\ stderr' = "couldn't open"
            /\ exit_code' = 101
            /\ pc' = "exited"
            /\ UNCHANGED couples
       ELSE /\ couples' = Split(macro_file.text, <<"\n">>)
            /\ pc' = "load_macros_loop"
            /\ UNCHANGED <<stderr, exit_code>>
    /\ UNCHANGED <<env, new_book, idx, content, render_html, splitter,
                   calls, result, stdout>>

\* Lines 86-98: one line of the macro source.  A line whose first
\* character is a backslash is split on ":" and its first two parts are
\* inserted; indexing the second part of a line with no colon panics.
LoadMacrosLine ==
    /\ pc = "load_macros_loop"
    /\ couples # <<>>
    /\ LET couple == Head(couples)
           parts == Split(couple, <<":">>)
       IN  IF couple # <<>> /\ couple[1] = "\\"
           THEN IF Len(parts) < 2
                THEN /\ stderr' = "index out of bounds"
                     /\ exit_code' = 101
                     /\ pc' = "exited"
                     /\ UNCHANGED <<couples, map>>
                ELSE /\ map' = Insert(map, parts[1], parts[2])
                     /\ couples' = Tail(couples)
                     /\ UNCHANGED <<pc, stderr, exit_code>>
           ELSE /\ couples' = Tail(couples)
                /\ UNCHANGED <<pc, map, stderr, exit_code>>
    /\ UNCHANGED <<env, new_book, idx, content, render_html, splitter,
                   calls, result, stdout>>

\* Lines 98-100, 78-79: the lines are exhausted; load_macros returns the
\* table and process calls render.
LoadMacrosReturn ==
    /\ pc = "load_macros_loop"
    /\ couples = <<>>
    /\ pc' = "render"
    /\ UNCHANGED <<env, new_book, idx, loader, content, render_html,
                   splitter, calls, process_io>>

(* ------------------------------- render ------------------------------- *)

\* Lines 113-122: a call of render_separator: an empty buffer, k = 0 and
\* the iterator of string.split(separator).
CallRenderSeparator(s, sep, disp) ==
    /\ string' = s
    /\ separator' = sep
    /\ display' = disp
    /\ items' = Split(s, sep)
    /\ k' = 0
    /\ html' = <<>>

\* Lines 104-107: render puts the header and two newlines in its buffer
\* and calls render_separator on the chapter for "$$", display mode on.
Render ==
    /\ pc = "render"
    /\ render_html' = header \o <<"\n", "\n">>
    /\ CallRenderSeparator(content, BlockSeparator, TRUE)
    /\ calls' = <<>>
    /\ pc' = "block_pass"
    /\ UNCHANGED <<env, new_book, idx, loader, content, process_io>>

\* One turn of the loop in which a render error is unwrapped instead of
\* being replaced by the raw slice: the process panics.
RenderSeparatorItemUnwrap ==
    /\ pc \in {"block_pass", "inline_pass"}
    /\ items # <<>>
    /\ calls' = IF IsExpression(k)
                THEN Append(calls, [item |-> Head(items), display |-> display])
                ELSE calls
    /\ IF IsExpression(k) /\ ~RenderWithOpts(fn, Head(items), display, map).ok
       THEN /\ stderr' = "render error"
            /\ exit_code' = 101
            /\ pc' = "exited"
            /\ UNCHANGED <<html, k, items>>
       ELSE /\ html' = html \o SegmentOutput(fn, Head(items), k, display, map)
            /\ k' = k + 1
            /\ items' = Tail(items)
            /\ UNCHANGED <<pc, stderr, exit_code>>
    /\ UNCHANGED <<env, new_book, idx, loader, content, render_html,
                   string, separator, display, result, stdout>>

\* Lines 122-140: one turn of the loop of render_separator.  The options
\* builder has every field set, so its unwrap never fails.
RenderSeparatorItem ==
    /\ pc \in {"block_pass", "inline_pass"}
    /\ items # <<>>
    /\ html' = html \o SegmentOutput(fn, Head(items), k, display, map)
    /\ calls' = IF IsExpression(k)
                THEN Append(calls, [item |-> Head(items), display |-> display])
                ELSE calls
    /\ k' = k + 1
    /\ items' = Tail(items)
    /\ UNCHANGED <<pc, env, new_book, idx, loader, content, render_html,
                   string, separator, display, process_io>>

\* Lines 141, 107-108: the call for "$$" returns; its result shadows
\* content and is handed whole to render_separator for "$", display
\* mode off.
BlockPassReturn ==
    /\ pc = "block_pass"
    /\ items = <<>>
    /\ content' = html
    /\ CallRenderSeparator(html, InlineSeparator, FALSE)
    /\ pc' = "inline_pass"
    /\ UNCHANGED <<env, new_book, idx, loader, render_html, calls,
                   process_io>>

\* Lines 141, 108-110: the call for "$" returns; its result shadows
\* content and is pushed after the header.
InlinePassReturn ==
    /\ pc = "inline_pass"
    /\ items = <<>>
    /\ content' = html
    /\ render_html' = render_html \o html
    /\ pc' = "render_ret"
    /\ UNCHANGED <<env, new_book, idx, loader, splitter, calls, process_io>>

\* Lines 110, 79, 154: render returns its buffer, process returns it and
\* run stores it as the chapter's content.
ProcessReturn ==
    /\ pc = "render_ret"
    /\ new_book' = [new_book EXCEPT ![idx].content = render_html]
    /\ idx' = idx + 1
    /\ pc' = "run"
    /\ UNCHANGED <<env, loader, content, render_html, splitter, calls,
                   process_io>>

(* ---------------------------- specification --------------------------- *)

Next ==
    \/ HandleSupports
    \/ ParseInput
    \/ RunItem
    \/ RunReturn
    \/ LoadMacros
    \/ LoadMacrosLine
    \/ LoadMacrosReturn
    \/ Render
    \/ RenderSeparatorItem
    \/ BlockPassReturn
    \/ InlinePassReturn
    \/ ProcessReturn
    \/ ToWriter
    \/ MainResult

Spec == Init /\ [][Next]_vars

\* The program is sequential: a step that can be taken is taken.
FairSpec == Spec /\ WF_vars(Next)

(* ------------------------- vocabulary of the claims ------------------- *)

\* sep occurs in s.
Contains(s, sep) ==
    \E i \in 1..Len(s) :
        i + Len(sep) - 1 <= Len(s) /\ SubSeq(s, i, i + Len(sep) - 1) = sep

RECURSIVE Concat(_)
\* Concatenation of a sequence of strings.
Concat(ss) ==
    IF ss = <<>> THEN <<>> ELSE Head(ss) \o Concat(Tail(ss))

RECURSIVE Join(_, _)
\* The slices with sep put back between them.
Join(ps, sep) ==
    IF Len(ps) = 1 THEN ps[1] ELSE ps[1] \o sep \o Join(Tail(ps), sep)

\* ps cuts s at the leftmost non-overlapping occurrences of sep: putting
\* sep back gives s, the last slice holds no sep, and in every other slice
\* followed by sep the first occurrence of sep is the one that follows it.
IsLeftmostCut(ps, s, sep) ==
    /\ Len(ps) >= 1
    /\ Join(ps, sep) = s
    /\ ~Contains(ps[Len(ps)], sep)
    /\ \A i \in 1..(Len(ps) - 1) :
          \A j \in 1..Len(ps[i]) :
              SubSeq(ps[i] \o sep, j, j + Len(sep) - 1) # sep

\* What an expression slice contributes: the markup, or the raw slice when
\* the render function fails.
Outcome(item, disp) ==
    LET res == RenderWithOpts(fn, item, disp, map)
    IN  IF res.ok THEN res.rendered ELSE item

\* The expression slices (2nd, 4th, ...) of a sequence of slices.
Expressions(ps) == [j \in 1..(Len(ps) \div 2) |-> ps[2 * j]]

\* The output of a pass over the first n slices of ps.
PassOutput(ps, n, disp) ==
    Concat([i \in 1..n |-> IF i % 2 = 0 THEN Outcome(ps[i], disp) ELSE ps[i]])

\* The calls made so far in the given display mode.
CallsIn(disp) == SelectSeq(calls, LAMBDA c : c.display = disp)

\* The chapter render is working on, as the host sent it.
chapter == new_book[idx].content

InPass == pc \in {"block_pass", "inline_pass"}

\* The two-stage pipeline of the specification: the inline pass runs on
\* each literal slice of the block pass on its own; a block expression
\* contributes its markup or its raw text.
InlineStage(s) ==
    LET ps == Split(s, InlineSeparator) IN PassOutput(ps, Len(ps), FALSE)

TwoStage(doc) ==
    LET bs == Split(doc, BlockSeparator)
    IN  Concat([i \in 1..Len(bs) |->
                  IF i % 2 = 0 THEN Outcome(bs[i], TRUE) ELSE InlineStage(bs[i])])

\* The inline expressions of the two-stage pipeline.
TwoStageInline(doc) ==
    LET bs == Split(doc, BlockSeparator)
    IN  UNION {{Expressions(Split(bs[i], InlineSeparator))[j] :
                   j \in 1..(Len(Split(bs[i], InlineSeparator)) \div 2)} :
               i \in {i \in 1..Len(bs) : i % 2 = 1}}

\* The document with its delimiters stripped, block bodies kept verbatim.
StripMarkers(doc) ==
    LET bs == Split(doc, BlockSeparator)
    IN  Concat([i \in 1..Len(bs) |->
                  IF i % 2 = 0 THEN bs[i]
                  ELSE Concat(Split(bs[i], InlineSeparator))])

RECURSIVE FirstColonTable(_, _)
\* The table of the specification: each line that starts with a backslash
\* and holds a colon is cut at its first colon; other lines are skipped.
FirstColonTable(lines, m) ==
    IF lines = <<>> THEN m
    ELSE LET l == Head(lines)
             p == Find(l, <<":">>, 1)
         IN  IF l # <<>> /\ l[1] = "\\" /\ p > 0
             THEN FirstColonTable(Tail(lines),
                      Insert(m, SubSeq(l, 1, p - 1), SubSeq(l, p + 1, Len(l))))
             ELSE FirstColonTable(Tail(lines), m)

MacroLines == Split(macro_file.text, <<"\n">>)

\* load_macros has returned a table read from a macro file.
MacrosLoaded == pc = "render" /\ macros_path = "Some"

(* -------------------------------- claims ------------------------------ *)

\* C1: text the block pass classified as a block expression is opaque to
\* the inline pass: every render call in inline mode is made on an inline
\* expression of a literal slice of the block pass, never on text inside
\* a block expression or on the output produced for it.  For the document
\* "$$ a $ b $ c $$" the only call is in display mode on " a $ b $ c ".
C1_BlockOpaque ==
    pc = "render_ret" =>
        /\ \A n \in 1..Len(calls) :
              ~calls[n].display => calls[n].item \in TwoStageInline(chapter)
        /\ chapter = NestingExample =>
              calls = <<[item |-> SubSeq(NestingExample, 3, 13), display |-> TRUE]>>

\* C2: the output of render is the output of the two-stage pipeline in
\* which the inline pass runs on each literal slice of the block pass
\* separately.
C2_TwoStage ==
    pc = "render_ret" => content = TwoStage(chapter)

\* C3: when the render function fails on every input, the output after the
\* header is the document with its delimiters stripped and the expression
\* bodies kept verbatim, a block body keeping the "$" it holds.
C3_FailureFallback ==
    (pc = "render_ret" /\ fn = "fail") => content = StripMarkers(chapter)

\* C4 as stated: for a document with no "$", render returns the header
\* followed by the document and nothing else, and calls no render function.
C4_HeaderThenDocument ==
    (pc = "render_ret" /\ ~Contains(chapter, InlineSeparator)) =>
        /\ render_html = header \o chapter
        /\ calls = <<>>

\* C4 as amended: for a document with no "$", render returns the header,
\* two newline characters and the document unchanged, and calls no render
\* function.
C4_MathFreeRoundTrip ==
    (pc = "render_ret" /\ ~Contains(chapter, InlineSeparator)) =>
        /\ render_html = header \o <<"\n", "\n">> \o chapter
        /\ calls = <<>>

\* A math-free chapter "aa" has been rendered.
C4_Witness ==
    /\ pc = "render_ret"
    /\ chapter = <<"a", "a">>
    /\ render_html = header \o <<"\n", "\n", "a", "a">>

\* C5: a macro line that starts with a backslash and holds no colon is
\* skipped: it never aborts the run, and load_macros returns a table with
\* the names of the well-formed lines.
C5_MacroLineSkipped ==
    /\ stderr # "index out of bounds"
    /\ MacrosLoaded =>
          {e[1] : e \in map} = {e[1] : e \in FirstColonTable(MacroLines, {})}

\* C6: every macro line that starts with a backslash and holds a colon is
\* entered as name -> body, cut at its first colon only, the body being the
\* whole remainder of the line; other lines enter nothing and a later line
\* of the same name overwrites an earlier one.
C6_FirstColonOnly ==
    MacrosLoaded => map = FirstColonTable(MacroLines, {})

\* C7: render_separator cuts the string at the leftmost non-overlapping
\* occurrences of the delimiter, copies the slices at even positions and
\* hands each slice at an odd position to the render function exactly once,
\* in document order, an empty slice and an unclosed final slice included.
C7_SplitterParity ==
    InPass =>
        LET ps == Split(string, separator)
        IN  /\ IsLeftmostCut(ps, string, separator)
            /\ k <= Len(ps)
            /\ items = SubSeq(ps, k + 1, Len(ps))
            /\ CallsIn(display) =
                  [j \in 1..(k \div 2) |-> [item |-> ps[2 * j], display |-> display]]
            /\ html = PassOutput(ps, k, display)

\* The block pass has finished "$$$$$$a": an empty expression and an
\* unclosed final expression "a" were both handed to the render function.
C7_Witness ==
    /\ pc = "block_pass"
    /\ items = <<>>
    /\ string = <<"$", "$", "$", "$", "$", "$", "a">>
    /\ calls = <<[item |-> <<>>, display |-> TRUE],
                 [item |-> <<"a">>, display |-> TRUE]>>

\* C8: whatever the render function does on each expression, rendering a
\* document runs to completion; a failure leaves the raw text in place
\* and the slices after it are still processed and emitted in order.
C8_FallbackTotal ==
    /\ (pc = "render") ~> (pc = "render_ret")
    /\ [](pc = "render_ret" =>
            LET bs == Split(chapter, BlockSeparator)
                is == Split(string, InlineSeparator)
            IN  /\ Len(calls) = (Len(bs) \div 2) + (Len(is) \div 2)
                /\ content = PassOutput(is, Len(is), FALSE))

\* "$$$$$a$" was rendered to the end although the render function failed
\* on the empty block expression: the inline expression after it was
\* still rendered.
C8_Witness ==
    /\ pc = "render_ret"
    /\ fn = "strict"
    /\ chapter = <<"$", "$", "$", "$", "$", "a", "$">>
    /\ calls = <<[item |-> <<>>, display |-> TRUE],
                 [item |-> <<"a">>, display |-> FALSE]>>
    /\ content = Markup(FALSE)

\* C9 as stated: the string render_separator returns holds no occurrence
\* of its delimiter, and the content part of render's output holds no "$".
C9_NoDelimiterInOutput ==
    /\ (InPass /\ items = <<>>) => ~Contains(html, separator)
    /\ pc = "render_ret" => ~Contains(content, InlineSeparator)

\* No markup the render function returned for this chapter holds a "$".
MarkupDollarFree ==
    \A n \in 1..Len(calls) :
        LET res == RenderWithOpts(fn, calls[n].item, calls[n].display, map)
        IN  res.ok => ~Contains(res.rendered, InlineSeparator)

\* C9 as amended: provided no markup returned by the render function
\* holds a "$", the string render_separator returns holds no occurrence of
\* its delimiter, and the content part of render's output holds no "$".
C9_NoDelimiterFromInput ==
    MarkupDollarFree =>
        /\ (InPass /\ items = <<>>) => ~Contains(html, separator)
        /\ pc = "render_ret" => ~Contains(content, InlineSeparator)

\* "$$a$$$a" was rendered with every render call failing: the delimiters
\* are gone and the bodies remain.
C9_Witness ==
    /\ pc = "render_ret"
    /\ fn = "fail"
    /\ chapter = <<"$", "$", "a", "$", "$", "$", "a">>
    /\ content = <<"a", "a">>

\* C10: when handle_preprocessing returns an error, the process ends with
\* a non-zero exit status and nothing was written to stdout.
C10_HostErrorsStopRun ==
    (pc = "exited" /\ result = "Err") => (exit_code # 0 /\ stdout = "")

====
